---- MODULE Spec2Model ----
(***************************************************************************)
(* Model of the sheet_bot job orchestrator (src/sheet_bot/main.py): the    *)
(* coordinator loop of main(), the worker process_vendor_row() that the    *)
(* loop submits to its thread pool, and the status ledger (the worksheets  *)
(* of the spreadsheet) that both work queue and lock live in.              *)
(***************************************************************************)
EXTENDS Integers, FiniteSets, Sequences, TLC

(* ------------------------------ bounds ------------------------------- *)

\* How many times an external actor (a person editing the spreadsheet) sets
\* a status cell back to Ready during one run of the model.
MaxResets == 1

\* How many midnights pass during one run of the model.
MaxDayChanges == 1

(* ----------------------- program constants --------------------------- *)

STATUS_READY == "Ready"
STATUS_SENDING == "SENDING"
STATUS_SENT == "Sent"
STATUS_ERROR == "ERROR"

\* Width of the ThreadPoolExecutor.
MAX_WORKERS == 4

(* ------------------------ the modelled world ------------------------- *)

\* The worksheets (tabs) of the spreadsheet in the order the weekdays select
\* them.  "Wed" is a tab without a header row: parse_sections returns an
\* empty frame for it.
SheetOrder == <<"Mon", "Tue", "Wed">>
Sheets == {SheetOrder[i] : i \in 1..Len(SheetOrder)}

\* The status cells (status_a1) that occur on the worksheets.
Cells == {"E2", "E3"}

\* Purchase-order identifiers.
POs == {"p1", "p2"}

\* The vendor rows parse_sections retains on a worksheet, by status cell.
RowsOf(s) == IF s \in {"Mon", "Tue"} THEN Cells ELSE {}

\* vendor_num of the row with status cell k on sheet s.
VendorOf(s, k) ==
  CASE s = "Mon" -> "v1"
    [] s = "Tue" /\ k = "E2" -> "v2"
    [] OTHER -> "v3"

\* The POs under the store columns of the row (po_df_from_row).
PoListOf(s, k) ==
  CASE s = "Mon" /\ k = "E2" -> {"p1", "p2"}
    [] s = "Mon" /\ k = "E3" -> {"p1"}
    [] s = "Tue" /\ k = "E2" -> {"p1"}
    [] OTHER -> {}

\* The vendor numbers of the rows.
Vendors == {"v1", "v2", "v3"}

\* CLEANUP_AFTER_SEND of main.py.
CLEANUP_AFTER_SEND == TRUE

\* RECIPIENTS: the vendors with at least one "to" address configured.
VendorsWithRecipients == {"v1", "v3"}

NoSheet == "none"
NoMsg == [kind |-> "none", pos |-> {}]
NoResult == [status |-> "none", msg |-> NoMsg]

(* ------------------- the arrival watcher: its world ------------------ *)

\* Parameters of one call of utils.retrieve_pdf, in ticks of 0.5 s (the sleep
\* between two size samples of is_file_stable).
settle_time == 1
poll_interval == 2
max_wait_seconds == 2
open_retry == 2

\* time.sleep(0.5) of is_file_stable, and the default open_retry_sleep of
\* 1.0 s, in ticks.
SampleSleep == 1
open_retry_sleep == 2

\* The watcher only compares the time since `start` with max_wait_seconds:
\* the model stops counting one tick after the last value a comparison can
\* tell apart.
ElapsedCap == max_wait_seconds + poll_interval + 1

\* The POs of po_df, in order.  A PO is the sequence of its parts between
\* dashes; a file name is the sequence of the parts between its dashes, the
\* extension ".pdf" left out.  Two POs no file name can match both, and two
\* POs of which one ends with a dash and the other.
SeparatePos == << <<"p1">>, <<"p2">> >>
OverlappingPos == << <<"p1">>, <<"p0", "p1">> >>

watch_dirs == <<"w1", "w2">>
dest_dir == "dest"

\* The files (watch directory, name) that producers may write during one
\* run: a file for each PO in one directory, or two files for one PO in two
\* directories and none for the other PO.
Universes == { { <<"w1", <<"a", "p1">> >>, <<"w1", <<"a", "p2">> >> },
               { <<"w1", <<"a", "p1">> >>, <<"w2", <<"b", "p1">> >> } }

\* The files of a run with the overlapping POs: one whose name matches both
\* POs and one whose name matches the shorter PO only.
OverlapUniverses == { { <<"w1", <<"a", "p0", "p1">> >>, <<"w2", <<"b", "p1">> >> } }

\* Every file of every run.
AllFiles == UNION (Universes \cup OverlapUniverses)

\* The names the destination directory may hold when the watch starts.
DestNamesAtStart == { <<"a", "p1">>, <<"a", "p2">> }
OverlapDestNames == { <<"a", "p0", "p1">> }

None == <<>>
NoFile == <<"none", <<>> >>
Waiting == [found_path |-> None, moved_to |-> None, status |-> "waiting"]

(* ------------------------- the PO patterns --------------------------- *)

\* File names and POs as strings of characters, for the pattern of a PO.
\* The names are put together from a stem, a separator, the text in the
\* place of the PO, an extension and an end; "nl" is the newline character.
PatternNames ==
  LET NameStems == { <<>>, <<"a">>, <<"a", "-", "1">> }
      NameSeparators == { <<"-">>, <<"_">>, <<>> }
      NameIds == { <<"1", ".", "5">>, <<"1", "x", "5">>, <<"A", "1">>,
                   <<"a", "1">>, <<"1">>, <<"5">> }
      NameExtensions == { <<".", "p", "d", "f">>, <<".", "P", "D", "F">>,
                          <<"x", "p", "d", "f">>, <<".", "p", "d">> }
      NameEnds == { <<>>, <<"nl">>, <<"x">> }
  IN  { a \o b \o c \o d \o e :
          a \in NameStems, b \in NameSeparators, c \in NameIds,
          d \in NameExtensions, e \in NameEnds }

\* POs: one with a character that is special in a pattern, one with a
\* letter in each case, and two digits.
PatternPos == { <<"1", ".", "5">>, <<"a", "1">>, <<"A", "1">>, <<"1">>, <<"5">> }

(* ----------------------- one row of a worksheet ---------------------- *)

\* Strings are sequences of characters.  The columns of a section between
\* "Vendor Name" and "Status": how many the modelled section has.
NumCols == 2

\* Header cells of these columns: store numbers, and a label for two stores
\* that is no integer.
HeaderLabels == { <<"1">>, <<"2">>, <<"1", "/", "2">> }

\* Cells of a data row under these columns.
CellValues == { <<>>, <<"x">>, <<"X">>, <<"7">>, <<"7", ".", "0">>,
                <<" ", "8">> }

Digits == {"0", "1", "2", "3", "4", "5", "6", "7", "8", "9"}

(* ------------------------ a worksheet's sections --------------------- *)

\* The rows of the worksheet parse_sections reads: how many at most.
MaxRows == 3

\* The labels of the required columns of a section header, in the columns
\* they stand in: Note | Vendor # | Vendor Name | Status.
RequiredLabels == <<"Note", "Vendor #", "Vendor Name", "Status">>
SheetCols == 1..Len(RequiredLabels)

\* Header rows: every required label is there or its cell is blank; and a
\* header written in other accepted spellings.
HeaderRowsOfSheet ==
  { [c \in SheetCols |-> IF c \in S THEN RequiredLabels[c] ELSE ""] :
      S \in SUBSET SheetCols }
  \cup { <<"NOTE ", "vendor no", "Vendor", "status">> }

\* Data rows: a vendor row that is Ready, and a row with no vendor number.
DataRowsOfSheet == { <<"", "17", "acme", "Ready">>, <<"", "", "acme", "Ready">> }

SheetRows == HeaderRowsOfSheet \cup DataRowsOfSheet

\* The indexes a1 is called with: from 0, which is not 1-based, up to a row
\* with two digits and a column with two letters.
MaxA1Row == 11
MaxA1Col == 28
A1Args == (0..MaxA1Row) \X (0..MaxA1Col)

VARIABLES
  today,       \* the day, counted from the day the program was started
  ledger,      \* ledger[s][k]: content of status cell k on worksheet s
  nResets,     \* external resets so far
  cpc,         \* position of the coordinator loop in its cycle
  ws,          \* the worksheet picked in the current cycle
  ready_df,    \* status cells of the rows read as Ready in this cycle
  new_rows,    \* the Ready rows of this cycle that are not in the active map
  active,      \* keys of the coordinator's active map (status_a1 -> Future)
  finished,    \* keys collected as finished in this cycle
  updates,     \* terminal (cell, status) pairs to write in this cycle
  lastErr,     \* which call of the cycle raised into the loop's except clause
  writes,      \* the ledger write calls issued in this cycle
  wpc,         \* wpc[k]: position of the worker held by the future of key k
  wrow,        \* wrow[k]: worksheet of the row dict the worker was given
  wgot,        \* wgot[k]: POs the watch reported done
  wres,        \* wres[k]: value returned by the worker
  fexc,        \* fexc[k]: the future holds an exception
  invoked,     \* invoked[k]: collaborator calls the worker has made
  raisedAt,    \* raisedAt[k]: the step of the worker that raised, if any
  uncollected, \* uncollected[k]: futures submitted for k and not yet collected
  doneAtStart, \* active keys whose future was done when the cycle started
  closed,      \* rows whose batch was collected and whose status cell no
               \* external actor has set to Ready and left so
  unwritten    \* keys whose terminal write raised and has not succeeded since

\* The vendor folders under OUTPUT_BASE.
VARIABLE
  vdir         \* vdir[v]: POs of the PDFs retrieve_pdf has put into
               \* OUTPUT_BASE/pdf_vendor_<v>

coordVars == <<cpc, ws, ready_df, new_rows, active, finished, updates, lastErr,
               writes, doneAtStart, closed, unwritten>>
workerVars == <<wpc, wrow, wgot, wres, fexc, invoked, raisedAt, uncollected>>
envVars == <<today, nResets>>

VARIABLES
  target_pos,  \* the POs of po_df, in order and without repetition
  wfs,         \* wfs[f]: size of file f in its watch directory, 0 when absent
  dest,        \* names of the files in the destination directory
  status,      \* status[po]: the row of the status frame of retrieve_pdf
  remaining,   \* the POs not done
  rpc,         \* position of retrieve_pdf
  phase,       \* "initial" in the initial sweep, "poll" in the polling loop
  wd,          \* index of the watch directory being scanned
  entries,     \* entries of the listing the scan has not visited yet
  entry,       \* the entry being handled
  po,          \* the PO the entry is being handled for
  pos_left,    \* POs of list(remaining) not yet tried on the entry
  size1,       \* is_file_stable: the last size sampled
  stable_for,  \* is_file_stable: time.time() - t0
  tries,       \* failed shutil.move attempts on the entry
  elapsed,     \* time.time() - start of the polling loop
  changed,     \* the stability check of the entry has seen the size change
  recent,      \* the latest size samples of the stability check
  hist,        \* hist[f]: absent or steady when the watch started, or touched
               \* by a producer since
  moveFailed,  \* a shutil.move call has raised
  listFailed,  \* a listing that raised has hidden entries of a watch directory
  precheckMissed, \* the pre-check raised and missed entries of the destination
  destAtStart, \* names in the destination directory when the watch started
  exhausted    \* the (file, PO) pairs for which a retry loop of the move has
               \* used all its tries

VARIABLES
  m_po,        \* the PO a pattern is compiled for
  m_name,      \* the name of a directory entry
  m_res,       \* what the scan does with the entry for this PO
  mpc          \* position of the comparison

matchVars == <<m_po, m_name, m_res, mpc>>

\* The files of the run.
Files == DOMAIN wfs

TargetSet == {target_pos[i] : i \in 1..Len(target_pos)}

watchVars == <<target_pos, wfs, dest, status, remaining, rpc, phase, wd, entries, entry, po,
               pos_left, size1, stable_for, tries, elapsed, changed, recent,
               hist, moveFailed, listFailed, precheckMissed, destAtStart,
               exhausted, matchVars>>

VARIABLES
  header_row,  \* the header cells of the columns of the section
  row,         \* the cells of one data row under these columns
  stores,      \* the stores dict of the row: (header, cell) pairs in
               \* insertion order
  pos_unique,  \* the PO list po_df_from_row returns
  ppc          \* position of the parse of the row

VARIABLES
  values,      \* the worksheet: ws.get_all_values()
  header_rows, \* the 1-based indexes of the rows that start a section
  sec_idx,     \* the section parse_sections is at
  recs,        \* the records collected so far
  spc          \* position of parse_sections

sectionVars == <<values, header_rows, sec_idx, recs, spc>>

VARIABLES
  a1_args,     \* the (row, column) arguments of two calls of a1
  a1_res,      \* what the two calls gave
  apc          \* position of the calls

a1Vars == <<a1_args, a1_res, apc>>

parseVars == <<header_row, row, stores, pos_unique, ppc, sectionVars, a1Vars>>

vars == <<today, ledger, nResets, cpc, ws, ready_df, new_rows, active, finished,
          updates, lastErr, writes, wpc, wrow, wgot, wres, fexc, invoked,
          raisedAt, uncollected, doneAtStart, closed, unwritten, vdir, watchVars,
          parseVars>>

Terminal == {STATUS_SENT, STATUS_ERROR}
RunningPcs == {"setup", "watch", "merge", "notify"}

\* The coordinator after main() has opened the spreadsheet: nothing is active.
OrchInit ==
  /\ today = 1
  /\ ledger = [s \in Sheets |-> [k \in Cells |->
                 IF k \in RowsOf(s) THEN STATUS_READY ELSE ""]]
  /\ nResets = 0
  /\ cpc = "sleep"
  /\ ws = NoSheet
  /\ ready_df = {}
  /\ new_rows = {}
  /\ active = {}
  /\ finished = {}
  /\ updates = {}
  /\ lastErr = "none"
  /\ writes = <<>>
  /\ wpc = [k \in Cells |-> "idle"]
  /\ wrow = [k \in Cells |-> NoSheet]
  /\ wgot = [k \in Cells |-> {}]
  /\ wres = [k \in Cells |-> NoResult]
  /\ fexc = [k \in Cells |-> FALSE]
  /\ invoked = [k \in Cells |-> {}]
  /\ raisedAt = [k \in Cells |-> "none"]
  /\ uncollected = [k \in Cells |-> 0]
  /\ doneAtStart = {}
  /\ closed = {}
  /\ unwritten = {}
  /\ vdir = [v \in Vendors |-> {}]

\* No call of retrieve_pdf is in progress.
MatchIdle ==
  /\ m_po = <<>>
  /\ m_name = <<>>
  /\ m_res = "none"
  /\ mpc = "idle"

WatchIdle ==
  /\ MatchIdle
  /\ target_pos = SeparatePos
  /\ wfs = <<>>
  /\ dest = {}
  /\ status = [q \in TargetSet |-> Waiting]
  /\ remaining = {}
  /\ rpc = "idle"
  /\ phase = "initial"
  /\ wd = 1
  /\ entries = {}
  /\ entry = NoFile
  /\ po = None
  /\ pos_left = {}
  /\ size1 = 0
  /\ stable_for = 0
  /\ tries = 0
  /\ elapsed = 0
  /\ changed = FALSE
  /\ recent = <<>>
  /\ hist = <<>>
  /\ moveFailed = FALSE
  /\ listFailed = FALSE
  /\ precheckMissed = FALSE
  /\ destAtStart = {}
  /\ exhausted = {}

\* No worksheet is being parsed.
SectionIdle ==
  /\ values = <<>>
  /\ header_rows = <<>>
  /\ sec_idx = 0
  /\ recs = <<>>
  /\ spc = "idle"

\* No row is being parsed.
RowIdle ==
  /\ header_row = <<>>
  /\ row = <<>>
  /\ stores = <<>>
  /\ pos_unique = <<>>
  /\ ppc = "idle"

\* a1 is not being called.
A1Idle ==
  /\ a1_args = <<>>
  /\ a1_res = <<>>
  /\ apc = "idle"

ParseIdle == RowIdle /\ SectionIdle /\ A1Idle

Init == OrchInit /\ WatchIdle /\ ParseIdle

(* --------------------------- environment ----------------------------- *)

\* The tab pick_today_worksheet selects: the tabs are used again week after
\* week.
TodaySheet == SheetOrder[((today - 1) % Len(SheetOrder)) + 1]

\* Midnight passes: pick_today_worksheet selects the next tab from now on.
\* Only Read looks at the date, so the model lets the date advance while the
\* loop sleeps.
DayChange ==
  /\ today <= MaxDayChanges
  /\ cpc = "sleep"
  /\ today' = today + 1
  /\ UNCHANGED <<ledger, nResets, coordVars, workerVars>>
  /\ UNCHANGED <<vdir, watchVars, parseVars>>

\* A person sets the status cell of a vendor row back to Ready.
ExternalReset(s, k) ==
  /\ nResets < MaxResets
  /\ k \in RowsOf(s)
  /\ ledger[s][k] # STATUS_READY
  /\ ledger' = [ledger EXCEPT ![s][k] = STATUS_READY]
  /\ nResets' = nResets + 1
  /\ closed' = closed \ {<<s, k>>}
  /\ UNCHANGED <<today, cpc, ws, ready_df, new_rows, active, finished, updates,
                 lastErr, writes, doneAtStart, unwritten, workerVars>>
  /\ UNCHANGED <<vdir, watchVars, parseVars>>

(* ---------------------------- coordinator ---------------------------- *)

ExceptPcCrashing == "crashed"

\* Where the loop continues after `except Exception` caught an error.
ExceptPc == "sleep"

ReadyRowsNotLocked(s) == {k \in RowsOf(s) : ledger[s][k] # STATUS_SENDING}

\* ready_df: the parsed rows whose status is exactly Ready.
ReadyRows(s) == {k \in RowsOf(s) : ledger[s][k] = STATUS_READY}

NewRowsIgnoringActive(ready) == ready

\* new_rows: the Ready rows whose status cell is not a key of the active map.
NewRows(ready) == {k \in ready : k \notin active}

\* sheets.batch_update_status: one batch_update call carrying range/value pairs.
WriteCall(s, pairs, ok) == [sheet |-> s, cells |-> pairs, ok |-> ok]

\* The ledger after a batch_update of `pairs` on worksheet s.
Applied(s, pairs) ==
  [t \in Sheets |-> [k \in Cells |->
     IF t = s /\ \E p \in pairs : p[1] = k
       THEN (CHOOSE p \in pairs : p[1] = k)[2]
       ELSE ledger[t][k]]]

\* time.sleep(POLL_SECONDS) ends and the next cycle starts:
\* pick_today_worksheet + parse_sections + the selection of new rows.
\* How the read of the cycle ends: parse_sections returns the rows, the
\* spreadsheet call raises, or _infer_schema raises its ValueError because a
\* section header lacks a required column.
ReadOutcomes == {"ok", "raise", "schema"}

Read(outcome) ==
  /\ cpc = "sleep"
  /\ doneAtStart' = {k \in active : wpc[k] = "done"}
  /\ finished' = {}
  /\ updates' = {}
  /\ writes' = <<>>
  /\ IF outcome # "ok"
       THEN /\ lastErr' = IF outcome = "schema" THEN "schema" ELSE "read"
            /\ cpc' = ExceptPc
            /\ ws' = NoSheet
            /\ ready_df' = {}
            /\ new_rows' = {}
       ELSE /\ lastErr' = "none"
            /\ ws' = TodaySheet
            /\ IF RowsOf(ws') = {}
                 THEN /\ ready_df' = {}
                      /\ new_rows' = {}
                      /\ cpc' = "sleep"
                 ELSE /\ ready_df' = ReadyRows(ws')
                      /\ new_rows' = NewRows(ready_df')
                      /\ cpc' = IF new_rows' = {} THEN "collect" ELSE "lock"
  /\ UNCHANGED <<active, closed, unwritten, ledger, envVars, workerVars>>
  /\ UNCHANGED <<vdir, watchVars, parseVars>>

\* The locks of the new rows, written in one batch.
LockPairs == {<<k, STATUS_SENDING>> : k \in new_rows}

AfterLockAlwaysSubmit(ok) == "submit"

\* Where the loop continues after the lock write.
AfterLock(ok) == IF ok THEN "submit" ELSE ExceptPc

Lock(outcome) ==
  /\ cpc = "lock"
  /\ LET ok == outcome = "ok"
     IN /\ writes' = Append(writes, WriteCall(ws, LockPairs, ok))
        /\ ledger' = IF ok THEN Applied(ws, LockPairs) ELSE ledger
        /\ lastErr' = IF ok THEN lastErr ELSE "lock"
        /\ cpc' = AfterLock(ok)
  /\ UNCHANGED <<ws, ready_df, new_rows, active, finished, updates,
                 doneAtStart, closed, unwritten, envVars, workerVars>>
  /\ UNCHANGED <<vdir, watchVars, parseVars>>

\* pool.submit for every new row, and its future stored in the active map.
Submit ==
  /\ cpc = "submit"
  /\ wpc' = [k \in Cells |-> IF k \in new_rows THEN "queued" ELSE wpc[k]]
  /\ wrow' = [k \in Cells |-> IF k \in new_rows THEN ws ELSE wrow[k]]
  /\ wgot' = [k \in Cells |-> IF k \in new_rows THEN {} ELSE wgot[k]]
  /\ wres' = [k \in Cells |-> IF k \in new_rows THEN NoResult ELSE wres[k]]
  /\ fexc' = [k \in Cells |-> IF k \in new_rows THEN FALSE ELSE fexc[k]]
  /\ invoked' = [k \in Cells |-> IF k \in new_rows THEN {} ELSE invoked[k]]
  /\ raisedAt' = [k \in Cells |-> IF k \in new_rows THEN "none" ELSE raisedAt[k]]
  /\ uncollected' = [k \in Cells |->
                       IF k \in new_rows THEN uncollected[k] + 1 ELSE uncollected[k]]
  /\ active' = active \cup new_rows
  /\ cpc' = "collect"
  /\ UNCHANGED <<ws, ready_df, new_rows, finished, updates, lastErr, writes,
                 doneAtStart, closed, unwritten, ledger, envVars>>
  /\ UNCHANGED <<vdir, watchVars, parseVars>>

\* The terminal status the loop records for a finished future.
FinalOf(k) == IF fexc[k] THEN STATUS_ERROR ELSE wres[k].status

FinishedIgnoringDone == active

\* The keys of the active map whose future is done.
Finished == {k \in active : wpc[k] = "done"}

\* The scan of the active map for finished futures.
Collect ==
  /\ cpc = "collect"
  /\ finished' = Finished
  /\ updates' = {<<k, FinalOf(k)>> : k \in finished'}
  /\ cpc' = IF updates' = {} THEN "sleep" ELSE "write"
  /\ UNCHANGED <<ws, ready_df, new_rows, active, lastErr, writes, doneAtStart,
                 closed, unwritten, ledger, envVars, workerVars>>
  /\ UNCHANGED <<vdir, watchVars, parseVars>>

RemovedAlways(ok) == finished

\* What the loop removes from the active map after the write of the
\* terminal statuses, by the outcome of that write.
RemovedAfterWrite(ok) == IF ok THEN finished ELSE {}

\* The batched write of the terminal statuses and the removal of the
\* finished futures from the active map.
WriteBack(outcome) ==
  /\ cpc = "write"
  /\ LET ok == outcome = "ok"
         gone == RemovedAfterWrite(ok)
     IN /\ writes' = Append(writes, WriteCall(ws, updates, ok))
        /\ ledger' = IF ok THEN Applied(ws, updates) ELSE ledger
        /\ lastErr' = IF ok THEN lastErr ELSE "write"
        /\ cpc' = IF ok THEN "sleep" ELSE ExceptPc
        /\ unwritten' = IF ok THEN unwritten \ finished
                              ELSE unwritten \cup finished
        /\ active' = active \ gone
        /\ closed' = closed \cup {<<wrow[k], k>> : k \in
                         {j \in gone : ledger'[wrow[j]][j] # STATUS_READY}}
        /\ wpc' = [k \in Cells |-> IF k \in gone THEN "idle" ELSE wpc[k]]
        /\ wrow' = [k \in Cells |-> IF k \in gone THEN NoSheet ELSE wrow[k]]
        /\ wgot' = [k \in Cells |-> IF k \in gone THEN {} ELSE wgot[k]]
        /\ wres' = [k \in Cells |-> IF k \in gone THEN NoResult ELSE wres[k]]
        /\ fexc' = [k \in Cells |-> IF k \in gone THEN FALSE ELSE fexc[k]]
        /\ invoked' = [k \in Cells |-> IF k \in gone THEN {} ELSE invoked[k]]
        /\ raisedAt' = [k \in Cells |-> IF k \in gone THEN "none" ELSE raisedAt[k]]
        /\ uncollected' = [k \in Cells |->
                             IF k \in gone THEN uncollected[k] - 1 ELSE uncollected[k]]
  /\ UNCHANGED <<ws, ready_df, new_rows, finished, updates, doneAtStart, envVars>>
  /\ UNCHANGED <<vdir, watchVars, parseVars>>

(* ------------------------------ worker ------------------------------- *)

Running == {k \in Cells : wpc[k] \in RunningPcs}

WorkerWritesOwnStatus(k) ==
  /\ ledger' = [ledger EXCEPT ![wrow[k]][k] =
                  IF wpc'[k] = "done" THEN wres'[k].status ELSE @]
  /\ UNCHANGED <<envVars, coordVars>>

\* What a step of process_vendor_row does to the ledger and to the state of
\* the coordinator: nothing.
WorkerShared(k) == UNCHANGED <<ledger, envVars, coordVars>>

\* The pool starts a queued future when one of its threads is free.
Start(k) ==
  /\ wpc[k] = "queued"
  /\ Cardinality(Running) < MAX_WORKERS
  /\ wpc' = [wpc EXCEPT ![k] = "setup"]
  /\ UNCHANGED <<wrow, wgot, wres, fexc, invoked, raisedAt, uncollected,
                 ledger, envVars, coordVars>>
  /\ UNCHANGED <<vdir, watchVars, parseVars>>

\* `return status_a1, status, message` of process_vendor_row.
Return(k, st, msg) ==
  /\ wpc' = [wpc EXCEPT ![k] = "done"]
  /\ wres' = [wres EXCEPT ![k] = [status |-> st, msg |-> msg]]
  /\ UNCHANGED fexc

RaiseEscapes(k, at) ==
  /\ wpc' = [wpc EXCEPT ![k] = "done"]
  /\ fexc' = [fexc EXCEPT ![k] = TRUE]
  /\ UNCHANGED wres

\* An exception raised at step `at` of the worker: the except clause of
\* process_vendor_row turns it into a returned ERROR.
Raise(k, at) == Return(k, STATUS_ERROR, [kind |-> "exception", pos |-> {}])

\* vendor_dir_rel of the worker of key k.
DirOf(k) == VendorOf(wrow[k], k)

\* _cleanup_vendor_output: rmtree of the vendor folder, merged PDF included.
Cleaned(k) == [vdir EXCEPT ![DirOf(k)] = {}]

DirCleanedAfterRaise(k) == Cleaned(k)

\* The except clause of process_vendor_row returns the ERROR and leaves the
\* vendor folder as it is.
DirAfterRaise(k) == vdir

MissingSwapped(needed, got) == got \ needed

\* needed - got of process_vendor_row.
MissingOf(needed, got) == needed \ got

\* Recipients check, creation of the vendor folder, extraction of the POs.
Setup(k, outcome) ==
  /\ wpc[k] = "setup"
  /\ IF VendorOf(wrow[k], k) \notin VendorsWithRecipients
       THEN /\ outcome = "ok"
            /\ Return(k, STATUS_ERROR, [kind |-> "no recipients", pos |-> {}])
            /\ UNCHANGED raisedAt
       ELSE IF outcome = "raise"
         THEN /\ raisedAt' = [raisedAt EXCEPT ![k] = "setup"]
              /\ Raise(k, "setup")
         ELSE /\ UNCHANGED raisedAt
              /\ IF PoListOf(wrow[k], k) = {}
                   THEN Return(k, STATUS_ERROR, [kind |-> "no POs", pos |-> {}])
                   ELSE /\ wpc' = [wpc EXCEPT ![k] = "watch"]
                        /\ UNCHANGED <<wres, fexc>>
  /\ UNCHANGED <<wrow, wgot, invoked, uncollected>>
  /\ WorkerShared(k)
  /\ vdir' = IF outcome = "raise" THEN DirAfterRaise(k) ELSE vdir
  /\ UNCHANGED <<watchVars, parseVars>>

\* retrieve_pdf and the completeness check on its status frame.
Watch(k, outcome, got) ==
  /\ wpc[k] = "watch"
  /\ got \subseteq PoListOf(wrow[k], k)
  /\ invoked' = [invoked EXCEPT ![k] = @ \cup {"watch"}]
  /\ IF outcome = "raise"
       THEN /\ got = {}
            /\ raisedAt' = [raisedAt EXCEPT ![k] = "watch"]
            /\ Raise(k, "watch")
            /\ UNCHANGED wgot
       ELSE /\ wgot' = [wgot EXCEPT ![k] = got]
            /\ UNCHANGED raisedAt
            /\ LET missing == MissingOf(PoListOf(wrow[k], k), got)
               IN IF missing # {}
                    THEN Return(k, STATUS_ERROR, [kind |-> "missing", pos |-> missing])
                    ELSE /\ wpc' = [wpc EXCEPT ![k] = "merge"]
                         /\ UNCHANGED <<wres, fexc>>
  /\ UNCHANGED <<wrow, uncollected>>
  /\ WorkerShared(k)
  /\ vdir' = IF outcome = "raise" THEN DirAfterRaise(k)
            ELSE [vdir EXCEPT ![DirOf(k)] = @ \cup got]
  /\ UNCHANGED <<watchVars, parseVars>>

\* combine_pdf: sorted(glob("<vendor folder>/*.pdf")), every PDF that lies in
\* the vendor folder when the merge runs.
MergeInput(k) == vdir[DirOf(k)]

\* _combine_vendor_pdfs; combine_pdf raises when the folder holds no PDF.
Merge(k, outcome) ==
  /\ wpc[k] = "merge"
  /\ outcome = "ok" => MergeInput(k) # {}
  /\ invoked' = [invoked EXCEPT ![k] = @ \cup {"merge"}]
  /\ IF outcome = "raise"
       THEN /\ raisedAt' = [raisedAt EXCEPT ![k] = "merge"]
            /\ Raise(k, "merge")
       ELSE /\ wpc' = [wpc EXCEPT ![k] = "notify"]
            /\ UNCHANGED <<wres, fexc, raisedAt>>
  /\ UNCHANGED <<wrow, wgot, uncollected>>
  /\ WorkerShared(k)
  /\ vdir' = IF outcome = "raise" THEN DirAfterRaise(k) ELSE vdir
  /\ UNCHANGED <<watchVars, parseVars>>

\* _send_vendor_email, then the cleanup and the successful return.
Notify(k, outcome) ==
  /\ wpc[k] = "notify"
  /\ invoked' = [invoked EXCEPT ![k] = @ \cup {"notify"}]
  /\ IF outcome = "raise"
       THEN /\ raisedAt' = [raisedAt EXCEPT ![k] = "notify"]
            /\ Raise(k, "notify")
       ELSE /\ Return(k, STATUS_SENT, [kind |-> "OK merged", pos |-> {}])
            /\ UNCHANGED raisedAt
  /\ UNCHANGED <<wrow, wgot, uncollected>>
  /\ WorkerShared(k)
  /\ vdir' = IF outcome = "raise" THEN DirAfterRaise(k)
            ELSE IF CLEANUP_AFTER_SEND THEN Cleaned(k) ELSE vdir
  /\ UNCHANGED <<watchVars, parseVars>>

\* The collaborator calls of worker k that returned without raising.
ReturnedOf(k) == invoked[k] \ {raisedAt[k]}

Outcomes == {"ok", "raise"}

(* ------------------------ the arrival watcher ------------------------ *)

\* patterns[po].search(name): the name ends with "-<PO>.pdf".
Matches(name, q) ==
  /\ Len(name) > Len(q)
  /\ SubSeq(name, Len(name) - Len(q) + 1, Len(name)) = q

\* The POs whose row of the status frame says done.
Done == {q \in TargetSet : status[q].status = "done"}

\* The row of a PO that is done.
DoneRow(found, moved) ==
  [found_path |-> found, moved_to |-> moved, status |-> "done"]

\* The orders in which iterdir() may yield the entries S.
Orders(S) ==
  {o \in [1..Cardinality(S) -> S] : \A i, j \in DOMAIN o : i # j => o[i] # o[j]}

PreCheckNothing(order, st) == st

\* The pre-check over the destination entries in the order `order`: an entry
\* marks the first PO of target_pos that is not done and that it matches.
RECURSIVE PreCheckFrom(_, _)
PreCheckFrom(order, st) ==
  IF order = <<>>
    THEN st
    ELSE LET n == Head(order)
             c == {i \in 1..Len(target_pos) :
                     /\ st[target_pos[i]].status # "done"
                     /\ Matches(n, target_pos[i])}
         IN IF c = {}
              THEN PreCheckFrom(Tail(order), st)
              ELSE LET i == CHOOSE x \in c : \A y \in c : x <= y
                       here == <<dest_dir, n>>
                   IN PreCheckFrom(Tail(order),
                        [st EXCEPT ![target_pos[i]] = DoneRow(here, here)])

\* time.time() - start after a sleep of n ticks.
Later(n) ==
  IF phase = "poll"
    THEN IF elapsed + n > ElapsedCap THEN ElapsedCap ELSE elapsed + n
    ELSE elapsed

WatchShared ==
  UNCHANGED <<ledger, envVars, coordVars, workerVars, vdir, parseVars>>

WatchGhosts == UNCHANGED <<hist, destAtStart, exhausted, target_pos, matchVars>>

\* Step 8: the destination is listed once and the POs found there are marked
\* done; a listing that raises is logged and marks nothing.
Precheck(outcome) ==
  /\ rpc = "precheck"
  /\ IF outcome = "raise"
       THEN status' = status
       ELSE \E order \in Orders(dest) : status' = PreCheckFrom(order, status)
  /\ precheckMissed' = (outcome = "raise" /\ dest # {})
  /\ remaining' = {q \in TargetSet : status'[q].status # "done"}
  /\ rpc' = "list"
  /\ wd' = 1
  /\ UNCHANGED <<wfs, dest, phase, entries, entry, po, pos_left, size1,
                 stable_for, tries, elapsed, changed, recent, moveFailed,
                 listFailed>>
  /\ WatchGhosts
  /\ WatchShared

ListingNothing(d) == {}

\* The files iterdir() yields for watch directory d.
Listing(d) == {f \in Files : f[1] = d /\ wfs[f] > 0}

\* How the scan of one watch directory starts: the listing returns the
\* entries; wd.iterdir() or a call on an entry raises inside the try of the
\* scan; or the guard `wd.exists()` / `wd.is_dir()`, which stands before the
\* try, raises (Path.exists and Path.is_dir pass on every OSError other than
\* file-not-found ones, a PermissionError among them, in the Python releases
\* before 3.14).
ListOutcomes == {"ok", "raise", "escape"}

\* `if not wd.exists() or not wd.is_dir(): continue` and
\* `for entry in wd.iterdir()`: the listing of one watch directory; a
\* listing that raises is logged and the directory is skipped; an exception
\* of the guard leaves retrieve_pdf.
List(outcome) ==
  /\ rpc = "list"
  /\ IF outcome = "ok"
       THEN /\ entries' = Listing(watch_dirs[wd])
            /\ UNCHANGED listFailed
       ELSE /\ entries' = {}
            /\ listFailed' = (listFailed \/ Listing(watch_dirs[wd]) # {})
  /\ rpc' = IF outcome = "escape" THEN "raised" ELSE "entry"
  /\ UNCHANGED <<wfs, dest, status, remaining, phase, wd, entry, po, pos_left,
                 size1, stable_for, tries, elapsed, changed, recent,
                 moveFailed, precheckMissed>>
  /\ WatchGhosts
  /\ WatchShared

AllTargets == TargetSet

\* list(remaining): the POs an entry is compared with are those not yet done,
\* as they stand when the entry's turn comes.
RemainingList == remaining

\* The next entry of the listing; an entry that is no file any more is
\* skipped.
NextEntry(f) ==
  /\ rpc = "entry"
  /\ f \in entries
  /\ entries' = entries \ {f}
  /\ IF wfs[f] = 0
       THEN UNCHANGED <<rpc, entry, pos_left>>
       ELSE /\ entry' = f
            /\ pos_left' = RemainingList
            /\ rpc' = "po"
  /\ UNCHANGED <<wfs, dest, status, remaining, phase, wd, po, size1,
                 stable_for, tries, elapsed, changed, recent, moveFailed,
                 listFailed, precheckMissed>>
  /\ WatchGhosts
  /\ WatchShared

\* `break`, or the POs of the entry are exhausted: on to the next entry.
ToNextEntry ==
  /\ rpc' = "entry"
  /\ entry' = NoFile
  /\ po' = None
  /\ pos_left' = {}
  /\ size1' = 0
  /\ stable_for' = 0
  /\ tries' = 0
  /\ changed' = FALSE
  /\ recent' = <<>>

\* `continue`: on to the next PO of list(remaining) for the same entry.
ToNextPo ==
  /\ rpc' = "po"
  /\ po' = None
  /\ size1' = 0
  /\ stable_for' = 0
  /\ tries' = 0
  /\ changed' = FALSE
  /\ recent' = <<>>
  /\ UNCHANGED <<entry, pos_left>>

WindowAlwaysOver(t) == TRUE

\* is_file_stable leaves its loop: not (time.time() - t0 < window).
WindowOver(t) == ~(t < settle_time)

\* `for po in list(remaining)`: the next PO the entry matches gets the entry
\* as found_path, and is_file_stable takes its first size sample.
NextPo ==
  /\ rpc = "po"
  /\ LET cands == {q \in pos_left : Matches(entry[2], q)}
     IN IF cands = {}
          THEN /\ ToNextEntry
               /\ UNCHANGED status
          ELSE \E q \in cands :
                 /\ status' = [status EXCEPT ![q].found_path = entry]
                 /\ pos_left' = pos_left \ {q}
                 /\ UNCHANGED <<entry, tries>>
                 /\ IF wfs[entry] = 0
                      THEN UNCHANGED <<rpc, po, size1, stable_for, changed, recent>>
                      ELSE /\ po' = q
                           /\ size1' = wfs[entry]
                           /\ stable_for' = 0
                           /\ changed' = FALSE
                           /\ recent' = <<wfs[entry]>>
                           /\ rpc' = IF WindowOver(0) THEN "dest" ELSE "sample"
  /\ UNCHANGED <<wfs, dest, remaining, phase, wd, entries, elapsed,
                 moveFailed, listFailed, precheckMissed>>
  /\ WatchGhosts
  /\ WatchShared

\* The size samples of the stability check that lie within one window before
\* the latest one.
LastSamples(s) ==
  IF Len(s) > settle_time + SampleSleep
    THEN SubSeq(s, Len(s) - settle_time, Len(s))
    ELSE s

\* One turn of the loop of is_file_stable: sleep, sample the size, restart
\* the window when the size has changed.
Sample ==
  /\ rpc = "sample"
  /\ elapsed' = Later(SampleSleep)
  /\ IF wfs[entry] = 0
       THEN ToNextPo
       ELSE /\ UNCHANGED <<entry, po, pos_left, tries>>
            /\ IF wfs[entry] # size1
                 THEN /\ size1' = wfs[entry]
                      /\ stable_for' = 0
                      /\ changed' = TRUE
                      /\ recent' = LastSamples(Append(recent, wfs[entry]))
                      /\ rpc' = IF WindowOver(0) THEN "dest" ELSE "sample"
                 ELSE /\ stable_for' = stable_for + SampleSleep
                      /\ rpc' = IF WindowOver(stable_for') THEN "dest" ELSE "sample"
                      /\ recent' = LastSamples(Append(recent, wfs[entry]))
                      /\ UNCHANGED <<size1, changed>>
  /\ UNCHANGED <<wfs, dest, status, remaining, phase, wd, entries,
                 moveFailed, listFailed, precheckMissed>>
  /\ WatchGhosts
  /\ WatchShared

DestNeverExists(name) == FALSE

\* dest = dest_dir / entry.name; dest.exists().
DestExists(name) == name \in dest

\* `if dest.exists()`: a destination that holds the name already makes the
\* PO done without a move.
DestCheck ==
  /\ rpc = "dest"
  /\ IF DestExists(entry[2])
       THEN /\ status' = [status EXCEPT ![po] =
                            DoneRow(@.found_path, <<dest_dir, entry[2]>>)]
            /\ remaining' = remaining \ {po}
            /\ ToNextEntry
       ELSE /\ UNCHANGED <<status, remaining>>
            /\ IF open_retry > 0
                 THEN /\ rpc' = "move"
                      /\ UNCHANGED <<entry, po, pos_left, size1, stable_for,
                                     tries, changed, recent>>
                 ELSE ToNextPo
  /\ UNCHANGED <<wfs, dest, phase, wd, entries, elapsed, moveFailed,
                 listFailed, precheckMissed>>
  /\ WatchGhosts
  /\ WatchShared

RetriesOverLate(n) == n > open_retry

\* The retry loop of the move has used all its open_retry tries.
RetriesOver(n) == n >= open_retry

\* How one shutil.move ends.  The watch directories are network shares and
\* the destination is a local folder, so the move is a copy followed by the
\* removal of the source: it returns, it raises with nothing changed, or it
\* raises after the copy has been written because the source cannot be
\* removed (another process holds it open).
MoveOutcomes == {"ok", "fail", "copied"}

DestAfterLostMove(d, name) == d

\* shutil.move(str(entry), str(dest)) with dest = dest_dir / entry.name: the
\* destination holds the file under the name it had in its watch directory.
DestAfterMove(d, name) == d \cup {name}

\* One shutil.move attempt of the retry loop.
Move(outcome) ==
  /\ rpc = "move"
  /\ IF outcome = "ok"
       THEN /\ wfs[entry] > 0
            /\ wfs' = [wfs EXCEPT ![entry] = 0]
            /\ dest' = DestAfterMove(dest, entry[2])
            /\ status' = [status EXCEPT ![po] =
                            DoneRow(@.found_path, <<dest_dir, entry[2]>>)]
            /\ remaining' = remaining \ {po}
            /\ ToNextEntry
            /\ UNCHANGED <<elapsed, moveFailed, exhausted>>
       ELSE /\ moveFailed' = TRUE
            /\ elapsed' = Later(open_retry_sleep)
            /\ IF RetriesOver(tries + 1)
                 THEN /\ ToNextPo
                      /\ exhausted' = exhausted \cup {<<entry, po>>}
                 ELSE /\ tries' = tries + 1
                      /\ UNCHANGED <<rpc, entry, po, pos_left, size1,
                                     stable_for, changed, recent, exhausted>>
            /\ IF outcome = "copied"
                 THEN /\ wfs[entry] > 0
                      /\ dest' = DestAfterMove(dest, entry[2])
                 ELSE UNCHANGED dest
            /\ UNCHANGED <<wfs, status, remaining>>
  /\ UNCHANGED <<phase, wd, entries, listFailed, precheckMissed, hist,
                 destAtStart, target_pos, matchVars>>
  /\ WatchShared

TimedOutInverted(t) == t <= max_wait_seconds

\* `(time.time() - start) > max_wait_seconds` at the top of the polling loop.
TimedOut(t) == t > max_wait_seconds

\* The listing of a watch directory is exhausted: the scan goes on to the
\* next directory; after the last one the initial sweep returns or enters the
\* polling loop, and a polling sweep sleeps poll_interval and tests the time.
EndDir ==
  /\ rpc = "entry"
  /\ entries = {}
  /\ IF wd < Len(watch_dirs)
       THEN /\ wd' = wd + 1
            /\ rpc' = "list"
            /\ UNCHANGED <<phase, elapsed>>
       ELSE /\ wd' = 1
            /\ IF remaining = {}
                 THEN /\ rpc' = "returned"
                      /\ UNCHANGED <<phase, elapsed>>
                 ELSE /\ phase' = "poll"
                      /\ elapsed' = IF phase = "initial" THEN 0
                                    ELSE Later(poll_interval)
                      /\ rpc' = IF TimedOut(elapsed') THEN "returned" ELSE "list"
  /\ UNCHANGED <<wfs, dest, status, remaining, entries, entry, po, pos_left,
                 size1, stable_for, tries, changed, recent, moveFailed,
                 listFailed, precheckMissed>>
  /\ WatchGhosts
  /\ WatchShared

WatchRunning == rpc \notin {"idle", "returned", "raised"}

ProducerFrame ==
  /\ UNCHANGED <<dest, status, remaining, rpc, phase, wd, entries, entry, po,
                 pos_left, size1, stable_for, tries, elapsed, changed, recent,
                 moveFailed, listFailed, precheckMissed, destAtStart,
                 exhausted, target_pos, matchVars>>
  /\ WatchShared

\* A producer creates file f in its watch directory.
Arrive(f) ==
  /\ WatchRunning
  /\ f \in Files
  /\ wfs[f] = 0
  /\ wfs' = [wfs EXCEPT ![f] = 1]
  /\ hist' = [hist EXCEPT ![f] = "touched"]
  /\ ProducerFrame

\* A producer writes to file f: its size changes.
Resize(f) ==
  /\ WatchRunning
  /\ f \in Files
  /\ wfs[f] > 0
  /\ wfs' = [wfs EXCEPT ![f] = 3 - @]
  /\ hist' = [hist EXCEPT ![f] = "touched"]
  /\ ProducerFrame

\* File f leaves its watch directory (renamed, or taken by another process).
Vanish(f) ==
  /\ WatchRunning
  /\ f \in Files
  /\ wfs[f] > 0
  /\ wfs' = [wfs EXCEPT ![f] = 0]
  /\ hist' = [hist EXCEPT ![f] = "touched"]
  /\ ProducerFrame

(* ----------------------- the pattern of a PO ------------------------- *)

\* The letters of the names and POs above in lower case: str.lower() and the
\* comparison of re.IGNORECASE.
FoldChar(ch) ==
  CASE ch = "A" -> "a"
    [] ch = "P" -> "p"
    [] ch = "D" -> "d"
    [] ch = "F" -> "f"
    [] OTHER -> ch

Fold(s) == [i \in DOMAIN s |-> FoldChar(s[i])]

\* The parameter case_insensitive of retrieve_pdf, which no caller sets.
case_insensitive == TRUE

\* A literal character of a pattern.
Lit(ch) == [kind |-> "lit", ch |-> ch]

\* The PO put into the pattern as it is: its dot stands for any character.
Unescaped(q) ==
  [i \in DOMAIN q |->
     IF q[i] = "." THEN [kind |-> "any", ch |-> "."] ELSE Lit(q[i])]

\* re.escape(po): every character of the PO stands for itself.
Escaped(q) == [i \in DOMAIN q |-> Lit(q[i])]

\* rf"-{esc}\.pdf" of compile_pattern, the `$` left out.
compile_pattern(q) ==
  <<Lit("-")>> \o Escaped(q) \o <<Lit("."), Lit("p"), Lit("d"), Lit("f")>>

\* A pattern element matches a character: a literal by re.IGNORECASE, the
\* dot anything but a newline.
ElemMatches(el, ch) ==
  IF el.kind = "any"
    THEN ch # "nl"
    ELSE IF case_insensitive THEN FoldChar(el.ch) = FoldChar(ch)
                             ELSE el.ch = ch

\* patterns[po].search(name): the pattern matches from some position of the
\* name, and `$` holds where it stops, which is at the end of the string or
\* just before a newline that ends the string.
search(pat, name) ==
  \E i \in 1..Len(name) :
     LET e == i + Len(pat) - 1
     IN  /\ e <= Len(name)
         /\ \A j \in 1..Len(pat) : ElemMatches(pat[j], name[i + j - 1])
         /\ \/ e = Len(name)
            \/ e = Len(name) - 1 /\ name[Len(name)] = "nl"

\* s.endswith(t).
endswith(s, t) ==
  Len(s) >= Len(t) /\ SubSeq(s, Len(s) - Len(t) + 1, Len(s)) = t

\* One entry of a listing compared with one PO: an entry whose name, in
\* lower case, does not end with ".pdf" is passed over before any pattern is
\* tried.
MatchEntry ==
  /\ mpc = "entry"
  /\ m_res' = IF ~endswith(Fold(m_name), <<".", "p", "d", "f">>)
                THEN "skipped"
                ELSE IF search(compile_pattern(m_po), m_name) THEN "hit"
                                                               ELSE "miss"
  /\ mpc' = "done"
  /\ UNCHANGED <<m_po, m_name>>
  /\ UNCHANGED <<target_pos, wfs, dest, status, remaining, rpc, phase, wd,
                 entries, entry, po, pos_left, size1, stable_for, tries,
                 elapsed, changed, recent, hist, moveFailed, listFailed,
                 precheckMissed, destAtStart, exhausted>>
  /\ WatchShared

(* ------------------- the required POs of a row ----------------------- *)

RECURSIVE LStrip(_)
LStrip(s) == IF s # <<>> /\ Head(s) = " " THEN LStrip(Tail(s)) ELSE s

RECURSIVE RStrip(_)
RStrip(s) ==
  IF s # <<>> /\ s[Len(s)] = " " THEN RStrip(SubSeq(s, 1, Len(s) - 1)) ELSE s

\* clean(x): str(x).strip().
clean(s) == RStrip(LStrip(s))

\* str.lower(); "X" is the only upper-case character of the modelled cells.
Lower(s) == [i \in 1..Len(s) |-> IF s[i] = "X" THEN "x" ELSE s[i]]

\* is_int_str(s): the cleaned string is non-empty and all digits.
is_int_str(s) ==
  LET c == clean(s) IN c # <<>> /\ \A i \in 1..Len(c) : c[i] \in Digits

\* strip_trailing_dot_zero(s): '14.0' -> '14'.
strip_trailing_dot_zero(s) ==
  LET c == clean(s)
  IN IF Len(c) >= 2 /\ c[Len(c) - 1] = "." /\ c[Len(c)] = "0"
       THEN SubSeq(c, 1, Len(c) - 2)
       ELSE c

\* store_cols of _infer_schema: the columns whose header is an integer.
store_cols == {c \in 1..NumCols : is_int_str(header_row[c])}

\* d[key] = val of a Python dict: a key that is present keeps its place and
\* gets the new value, a new key is added at the end.
DictSet(d, key, val) ==
  IF \E i \in 1..Len(d) : d[i][1] = key
    THEN [i \in 1..Len(d) |-> IF d[i][1] = key THEN <<key, val>> ELSE d[i]]
    ELSE Append(d, <<key, val>>)

\* The stores dict of parse_sections after the store columns up to column c.
RECURSIVE StoresUpTo(_)
StoresUpTo(c) ==
  IF c = 0 THEN <<>>
  ELSE IF c \in store_cols
         THEN DictSet(StoresUpTo(c - 1), clean(header_row[c]), clean(row[c]))
         ELSE StoresUpTo(c - 1)

\* The cell is blank or the placeholder "x".
Skipped(raw) == LET s == clean(raw) IN s = <<>> \/ Lower(s) = <<"x">>

\* pos of po_df_from_row: the values of the dict that are neither blank nor
\* "x", '.0' trimmed, in the order of the dict.
RECURSIVE PosOf(_)
PosOf(d) ==
  IF d = <<>> THEN <<>>
  ELSE LET rest == PosOf(SubSeq(d, 1, Len(d) - 1))
           raw == d[Len(d)][2]
       IN IF Skipped(raw) THEN rest
          ELSE Append(rest, strip_trailing_dot_zero(raw))

\* De-duplicate, keep order.
RECURSIVE Unique(_)
Unique(s) ==
  IF s = <<>> THEN <<>>
  ELSE LET rest == Unique(SubSeq(s, 1, Len(s) - 1))
           p == s[Len(s)]
       IN IF \E i \in 1..Len(rest) : rest[i] = p THEN rest ELSE Append(rest, p)

ParseShared ==
  UNCHANGED <<ledger, envVars, coordVars, workerVars, vdir, watchVars,
              sectionVars, a1Vars>>

\* parse_sections builds the record of the data row.
ParseRow ==
  /\ ppc = "row"
  /\ stores' = StoresUpTo(NumCols)
  /\ ppc' = "podf"
  /\ UNCHANGED <<header_row, row, pos_unique>>
  /\ ParseShared

\* po_df_from_row on the record.
PoDf ==
  /\ ppc = "podf"
  /\ pos_unique' = Unique(PosOf(stores))
  /\ ppc' = "done"
  /\ UNCHANGED <<header_row, row, stores>>
  /\ ParseShared

(* ---------------------- the sections of a worksheet ------------------ *)

\* clean(): str(x).strip(), on the cell texts of the worksheets above.
CleanCell(c) == IF c = "NOTE " THEN "NOTE" ELSE c

\* clean(x).lower() on these cell texts.
CleanLower(c) ==
  CASE c \in {"Note", "NOTE "} -> "note"
    [] c = "Vendor #" -> "vendor #"
    [] c = "Vendor Name" -> "vendor name"
    [] c = "Vendor" -> "vendor"
    [] c \in {"Status", "status"} -> "status"
    [] c = "Ready" -> "ready"
    [] OTHER -> c

eqci(a, b) == CleanLower(a) = CleanLower(b)

Letters == <<"A", "B", "C", "D", "E", "F", "G", "H", "I", "J", "K", "L", "M",
             "N", "O", "P", "Q", "R", "S", "T", "U", "V", "W", "X", "Y", "Z">>
DigitChars == <<"0", "1", "2", "3", "4", "5", "6", "7", "8", "9">>

LastLetterOnly(n) == IF n < 1 THEN <<>> ELSE <<Letters[((n - 1) % 26) + 1]>>

\* The loop of a1: `while n: n, r = divmod(n - 1, 26); col = chr(65 + r) + col`.
RECURSIVE ColName(_)
ColName(n) ==
  IF n = 0
    THEN <<>>
    ELSE ColName((n - 1) \div 26) \o <<Letters[((n - 1) % 26) + 1]>>

\* str() of a positive integer.
RECURSIVE Decimal(_)
Decimal(n) ==
  IF n < 10
    THEN <<DigitChars[n + 1]>>
    ELSE Decimal(n \div 10) \o <<DigitChars[(n % 10) + 1]>>

\* a1 raises ValueError.
a1Raises(row_idx, col_idx) == row_idx < 1 \/ col_idx < 1

\* a1 of 1-based indexes: f"{col}{row_idx_1based}".
a1(row_idx, col_idx) == ColName(col_idx) \o Decimal(row_idx)

\* What a call of a1 gives: the string, or the ValueError.
a1Call(arg) ==
  IF a1Raises(arg[1], arg[2])
    THEN [raised |-> TRUE, text |-> <<>>]
    ELSE [raised |-> FALSE, text |-> a1(arg[1], arg[2])]

\* Two calls of a1.
ApplyA1 ==
  /\ apc = "call"
  /\ a1_res' = [i \in DOMAIN a1_args |-> a1Call(a1_args[i])]
  /\ apc' = "done"
  /\ UNCHANGED a1_args
  /\ UNCHANGED <<ledger, envVars, coordVars, workerVars, vdir, watchVars,
                 header_row, row, stores, pos_unique, ppc, sectionVars>>

\* _find_header_rows: the rows with a cell that reads "Note".
find_header_rows(vals) ==
  {r \in 1..Len(vals) : \E c \in DOMAIN vals[r] : eqci(vals[r][c], "Note")}

\* sorted(header_rows).
RECURSIVE Sorted(_)
Sorted(S) ==
  IF S = {}
    THEN <<>>
    ELSE LET m == CHOOSE x \in S : \A y \in S : x <= y
         IN <<m>> \o Sorted(S \ {m})

\* The first and the last column of a set of columns, 0 (None) when there is
\* none.
FirstCol(S) == IF S = {} THEN 0 ELSE CHOOSE x \in S : \A y \in S : x <= y
LastCol(S) == IF S = {} THEN 0 ELSE CHOOSE x \in S : \A y \in S : x >= y

\* _infer_schema: the first Note, vendor number and vendor name columns and
\* the last Status column of the header row.
infer_schema(hr) ==
  [note_c |-> FirstCol({c \in DOMAIN hr : eqci(hr[c], "Note")}),
   vnum_c |-> FirstCol({c \in DOMAIN hr : CleanLower(hr[c]) \in
                 {"vendor #", "vendor#", "vendor no", "vendor number"}}),
   vname_c |-> FirstCol({c \in DOMAIN hr : CleanLower(hr[c]) \in
                 {"vendor name", "vendor"}}),
   status_c |-> LastCol({c \in DOMAIN hr : CleanLower(hr[c]) = "status"})]

\* all([note_c, vnum_c, vname_c, status_c]).
SchemaThere(schema) ==
  /\ schema.note_c # 0
  /\ schema.vnum_c # 0
  /\ schema.vname_c # 0
  /\ schema.status_c # 0

\* The records of the data rows r..stop_r of section sec: rows with an empty
\* vendor number are dropped.
RECURSIVE RecsFrom(_, _, _, _)
RecsFrom(r, stop_r, sec, schema) ==
  IF r > stop_r
    THEN <<>>
    ELSE LET vendor_num == CleanCell(values[r][schema.vnum_c])
             rec == [section |-> sec,
                     sheet_row |-> r,
                     vendor_num |-> vendor_num,
                     vendor_name |-> CleanCell(values[r][schema.vname_c]),
                     status |-> CleanCell(values[r][schema.status_c]),
                     status_a1 |-> a1(r, schema.status_c)]
         IN (IF vendor_num = "" THEN <<>> ELSE <<rec>>)
              \o RecsFrom(r + 1, stop_r, sec, schema)

SectionShared ==
  UNCHANGED <<ledger, envVars, coordVars, workerVars, vdir, watchVars,
              header_row, row, stores, pos_unique, ppc, a1Vars>>

\* parse_sections up to its loop over the sections: an empty worksheet and a
\* worksheet without a header row give an empty frame.
FindHeaders ==
  /\ spc = "find"
  /\ header_rows' = Sorted(find_header_rows(values))
  /\ IF header_rows' = <<>>
       THEN /\ spc' = "returned"
            /\ UNCHANGED sec_idx
       ELSE /\ spc' = "section"
            /\ sec_idx' = 1
  /\ UNCHANGED <<values, recs>>
  /\ SectionShared

\* One turn of the loop over the sections: the schema of the header row is
\* inferred, which raises ValueError out of parse_sections when a required
\* column is missing, and the data rows up to the next header row are
\* recorded.
ParseSection ==
  /\ spc = "section"
  /\ LET hdr_r == header_rows[sec_idx]
         stop_r == IF sec_idx < Len(header_rows)
                     THEN header_rows[sec_idx + 1] - 1
                     ELSE Len(values)
         schema == infer_schema(values[hdr_r])
     IN IF ~SchemaThere(schema)
          THEN /\ spc' = "raised"
               /\ UNCHANGED <<recs, sec_idx>>
          ELSE /\ recs' = recs \o RecsFrom(hdr_r + 1, stop_r, sec_idx, schema)
               /\ sec_idx' = sec_idx + 1
               /\ spc' = IF sec_idx = Len(header_rows) THEN "returned"
                                                        ELSE "section"
  /\ UNCHANGED <<values, header_rows>>
  /\ SectionShared

(* --------------------------- specification --------------------------- *)

Next ==
  \/ DayChange
  \/ \E s \in Sheets, k \in Cells : ExternalReset(s, k)
  \/ \E o \in ReadOutcomes : Read(o)
  \/ \E o \in Outcomes : Lock(o)
  \/ Submit
  \/ Collect
  \/ \E o \in Outcomes : WriteBack(o)
  \/ \E k \in Cells : Start(k)
  \/ \E k \in Cells, o \in Outcomes : Setup(k, o)
  \/ \E k \in Cells, o \in Outcomes, got \in SUBSET POs : Watch(k, o, got)
  \/ \E k \in Cells, o \in Outcomes : Merge(k, o)
  \/ \E k \in Cells, o \in Outcomes : Notify(k, o)

Spec == Init /\ [][Next]_vars

\* A step of the worker held by the future of key k.
WorkerStep(k) ==
  \/ Start(k)
  \/ \E o \in Outcomes : Setup(k, o)
  \/ \E o \in Outcomes, got \in SUBSET POs : Watch(k, o, got)
  \/ \E o \in Outcomes : Merge(k, o)
  \/ \E o \in Outcomes : Notify(k, o)

\* The loop of main() never stops, the pool runs every submitted future, the
\* calls of a worker return or raise; and reads and writes of the spreadsheet
\* that are tried again and again succeed again and again.
FairSpec ==
  /\ Spec
  /\ WF_vars(Submit)
  /\ WF_vars(Collect)
  /\ SF_vars(Read("ok"))
  /\ SF_vars(Lock("ok"))
  /\ SF_vars(WriteBack("ok"))
  /\ \A k \in Cells : WF_vars(WorkerStep(k))

\* retrieve_pdf has been called and has built its status frame (steps 1-7):
\* every PO waits; the watch directories and the destination hold what
\* earlier activity left there.
WatchStart(pos, universes, names) ==
  /\ OrchInit
  /\ ParseIdle
  /\ MatchIdle
  /\ target_pos = pos
  /\ \E U \in universes : wfs \in [U -> {0, 1}]
  /\ dest \in SUBSET names
  /\ status = [q \in TargetSet |-> Waiting]
  /\ remaining = {}
  /\ rpc = "precheck"
  /\ phase = "initial"
  /\ wd = 1
  /\ entries = {}
  /\ entry = NoFile
  /\ po = None
  /\ pos_left = {}
  /\ size1 = 0
  /\ stable_for = 0
  /\ tries = 0
  /\ elapsed = 0
  /\ changed = FALSE
  /\ recent = <<>>
  /\ hist = [f \in Files |-> IF wfs[f] > 0 THEN "steady" ELSE "absent"]
  /\ moveFailed = FALSE
  /\ listFailed = FALSE
  /\ precheckMissed = FALSE
  /\ destAtStart = dest
  /\ exhausted = {}

WatchInit == WatchStart(SeparatePos, Universes, DestNamesAtStart)

WatchStep ==
  \/ \E o \in Outcomes : Precheck(o)
  \/ \E o \in ListOutcomes : List(o)
  \/ \E f \in AllFiles : NextEntry(f)
  \/ NextPo
  \/ Sample
  \/ DestCheck
  \/ \E o \in MoveOutcomes : Move(o)
  \/ EndDir

WatchNext ==
  \/ \E o \in Outcomes : Precheck(o)
  \/ \E o \in ListOutcomes : List(o)
  \/ \E f \in AllFiles : NextEntry(f)
  \/ NextPo
  \/ Sample
  \/ DestCheck
  \/ \E o \in MoveOutcomes : Move(o)
  \/ EndDir
  \/ \E f \in AllFiles : Arrive(f)
  \/ \E f \in AllFiles : Resize(f)
  \/ \E f \in AllFiles : Vanish(f)

WatchSpec == WatchInit /\ [][WatchNext]_vars

\* The thread that runs retrieve_pdf keeps running: the pool never suspends a
\* worker, and every sleep of the code ends.  Nothing is assumed of the
\* producers.
WatchFair == WatchSpec /\ WF_vars(WatchStep)

\* The scan has an entry in hand and a PO to compare it with.
MatchInit ==
  /\ OrchInit
  /\ ParseIdle
  /\ m_po \in PatternPos
  /\ m_name \in PatternNames
  /\ m_res = "none"
  /\ mpc = "entry"
  /\ target_pos = SeparatePos
  /\ wfs = <<>>
  /\ dest = {}
  /\ status = [q \in TargetSet |-> Waiting]
  /\ remaining = {}
  /\ rpc = "idle"
  /\ phase = "initial"
  /\ wd = 1
  /\ entries = {}
  /\ entry = NoFile
  /\ po = None
  /\ pos_left = {}
  /\ size1 = 0
  /\ stable_for = 0
  /\ tries = 0
  /\ elapsed = 0
  /\ changed = FALSE
  /\ recent = <<>>
  /\ hist = <<>>
  /\ moveFailed = FALSE
  /\ listFailed = FALSE
  /\ precheckMissed = FALSE
  /\ destAtStart = {}
  /\ exhausted = {}

MatchNext == MatchEntry

MatchSpec == MatchInit /\ [][MatchNext]_vars

\* A run of retrieve_pdf for a row whose POs overlap.
OverlapInit == WatchStart(OverlappingPos, OverlapUniverses, OverlapDestNames)

OverlapSpec == OverlapInit /\ [][WatchNext]_vars

\* parse_sections has reached a data row of a section whose header row has
\* the required columns.
ParseInit ==
  /\ OrchInit
  /\ WatchIdle
  /\ header_row \in [1..NumCols -> HeaderLabels]
  /\ row \in [1..NumCols -> CellValues]
  /\ stores = <<>>
  /\ pos_unique = <<>>
  /\ ppc = "row"
  /\ SectionIdle
  /\ A1Idle

ParseNext == ParseRow \/ PoDf

ParseSpec == ParseInit /\ [][ParseNext]_vars

\* parse_sections has read the values of a worksheet.
SectionInit ==
  /\ OrchInit
  /\ WatchIdle
  /\ RowIdle
  /\ A1Idle
  /\ \E n \in 0..MaxRows : values \in [1..n -> SheetRows]
  /\ header_rows = <<>>
  /\ sec_idx = 0
  /\ recs = <<>>
  /\ spc = "find"

SectionNext == FindHeaders \/ ParseSection

\* a1 is about to be called for two cells.
A1Init ==
  /\ OrchInit
  /\ WatchIdle
  /\ RowIdle
  /\ SectionIdle
  /\ a1_args \in [1..2 -> A1Args]
  /\ a1_res = <<>>
  /\ apc = "call"

A1Next == ApplyA1

A1Spec == A1Init /\ [][A1Next]_vars

SectionSpec == SectionInit /\ [][SectionNext]_vars


(* ------------------------------ claims ------------------------------- *)

\* The worker of key k was submitted to the pool in this step.
Submitted(k) == uncollected'[k] > uncollected[k]

\* The write call issued in this step, if one was.
Wrote == Len(writes') = Len(writes) + 1
LastCall == writes'[Len(writes')]

\* C1: a row whose status cell is a key of the active map is never submitted
\* to the pool again, also when it is read as Ready while its worker is
\* uncollected; there is at most one uncollected worker per status cell.
C1_NoSecondDispatch ==
  /\ cpc = "submit" => new_rows \cap active = {}
  /\ \A k \in Cells : uncollected[k] <= 1 /\ (uncollected[k] = 1 <=> k \in active)

\* C1 witness: the cycle read a row as Ready whose key is in the active map
\* with its worker uncollected, and left it out of the rows to dispatch.
C1_Witness ==
  /\ cpc \in {"lock", "submit", "collect"}
  /\ \E k \in ready_df \cap active : k \notin new_rows /\ uncollected[k] = 1

\* C2: a worker is submitted only after the batched write that set its status
\* cell to SENDING returned; when that write raises, the pass submits no
\* worker and leaves the active map as it was.
C2_LockBeforeDispatch ==
  [][/\ \A k \in Cells : Submitted(k) =>
          \E i \in DOMAIN writes :
             /\ writes[i].ok
             /\ writes[i].sheet = ws
             /\ <<k, STATUS_SENDING>> \in writes[i].cells
     /\ (cpc = "lock" /\ lastErr' = "lock") =>
          /\ active' = active
          /\ wpc' = wpc
          /\ cpc' = "sleep"
     /\ lastErr = "lock" => \A k \in Cells : ~Submitted(k)]_vars

\* C2 witness: the workers of the rows locked in this pass are queued, and
\* the ledger shows those rows as SENDING.
C2_Witness ==
  /\ cpc = "collect"
  /\ new_rows # {}
  /\ \A k \in new_rows : wpc[k] = "queued" /\ ledger[ws][k] = STATUS_SENDING

C4_FailedWriteKept ==
  /\ \A k \in unwritten :
        /\ k \in active
        /\ wpc[k] = "done"
        /\ cpc = "write" => <<k, FinalOf(k)>> \in updates
  /\ (cpc = "sleep" /\ lastErr = "write") => finished \subseteq active

\* C4 witness: a cycle is about to write again the terminal status of a
\* worker whose earlier write raised.
C4_Witness ==
  /\ cpc = "write"
  /\ \E k \in unwritten : <<k, FinalOf(k)>> \in updates

\* C5 (the claim as stated): at the end of a cycle, every worker whose future
\* was done when the cycle started has been removed from the active map,
\* whatever the ledger read or the lock write did.
C5_CollectedEveryCycle ==
  (cpc = "sleep" /\ lastErr # "write") => doneAtStart \cap active = {}

\* C6: a row whose batch was collected is not dispatched again unless an
\* external actor has set its status back to Ready since.
C6_NoRedispatch ==
  [][\A k \in Cells : Submitted(k) => <<ws, k>> \notin closed]_vars

\* C6 witness: a later cycle reads the worksheet of a collected, unreset row
\* and selects nothing for it.
C6_Witness ==
  /\ cpc = "collect"
  /\ \E k \in Cells : <<ws, k>> \in closed /\ k \notin new_rows /\ k \notin active

\* C7: no step of a worker changes the ledger, issues a ledger write or
\* changes the active map; its outcome is in the value its future holds.
C7_OnlyCoordinatorWrites ==
  [][(\E k \in Cells : wpc[k] \in RunningPcs /\ wpc'[k] # wpc[k]) =>
        /\ ledger' = ledger
        /\ writes' = writes
        /\ active' = active]_vars

\* C7 witness: a worker has returned its terminal status while its row still
\* reads SENDING in the ledger and its key is still in the active map.
C7_Witness ==
  \E k \in active :
     /\ wpc[k] = "done"
     /\ wres[k].status \in Terminal
     /\ ledger[wrow[k]][k] = STATUS_SENDING

\* C8: the loop never leaves its cycle: a step in which the ledger read or a
\* ledger write raised, and every step until the next read, leaves the loop
\* at its sleep with the active map unchanged.
C8_LoopSurvives ==
  [][/\ cpc' \in {"lock", "submit", "collect", "write", "sleep"}
     /\ lastErr' # "none" => cpc' = "sleep" /\ active' = active]_vars

\* C8 witness: the loop sleeps after a cycle whose lock write raised, with
\* workers still in its active map.
C8_Witness == cpc = "sleep" /\ lastErr = "lock" /\ active # {}

\* C9: a worker returns Sent only if the watch reported every required PO
\* done and merge and notify returned; a step that raised yields a returned
\* ERROR, and no future ever holds an exception.
C9_WorkerOutcome ==
  \A k \in Cells :
     /\ ~fexc[k]
     /\ wpc[k] = "done" =>
          /\ wres[k].status \in Terminal
          /\ wres[k].status = STATUS_SENT =>
               /\ PoListOf(wrow[k], k) \subseteq wgot[k]
               /\ {"watch", "merge", "notify"} \subseteq ReturnedOf(k)
     /\ raisedAt[k] # "none" => wpc[k] = "done" /\ wres[k].status = STATUS_ERROR

\* C9 witness: the merge of a worker raised and the worker returned ERROR.
C9_Witness ==
  \E k \in Cells :
     raisedAt[k] = "merge" /\ wpc[k] = "done" /\ wres[k].status = STATUS_ERROR

\* C10: merge and notify are invoked only after a watch with nothing missing;
\* a watch with something missing ends the worker with ERROR and a message
\* that lists exactly the required POs not done, without merge or notify.
C10_MissingFails ==
  \A k \in Cells :
     LET needed == PoListOf(wrow[k], k)
     IN /\ invoked[k] \cap {"merge", "notify"} # {} =>
             "watch" \in ReturnedOf(k) /\ needed \subseteq wgot[k]
        /\ ("watch" \in ReturnedOf(k) /\ ~(needed \subseteq wgot[k])) =>
             /\ wpc[k] = "done"
             /\ wres[k] = [status |-> STATUS_ERROR,
                           msg |-> [kind |-> "missing", pos |-> needed \ wgot[k]]]
             /\ invoked[k] \cap {"merge", "notify"} = {}

\* C10 witness: one of two required POs arrived; the worker returned ERROR
\* naming the other.
C10_Witness ==
  \E k \in Cells :
     /\ wgot[k] = {"p1"}
     /\ wres[k].msg = [kind |-> "missing", pos |-> {"p2"}]
     /\ invoked[k] = {"watch"}

\* C11 (the claim as stated): the ledger write of a finished batch carries,
\* next to the status cell and the terminal status, the message the worker
\* returned.
C11_MessageWritten ==
  [][Wrote => \A p \in LastCall.cells :
        p[2] \in Terminal => Len(p) >= 3 /\ p[3] = wres[p[1]].msg]_vars

\* The POs for which the destination held a matching file when the watch
\* started.
InDestAtStart == {q \in TargetSet : \E n \in destAtStart : Matches(n, q)}

\* The row of q says done, with moved_to a matching file that was in the
\* destination when the watch started.
DoneInPlace(q) ==
  /\ status[q].status = "done"
  /\ status[q].moved_to # None
  /\ status[q].moved_to[1] = dest_dir
  /\ status[q].moved_to[2] \in destAtStart
  /\ Matches(status[q].moved_to[2], q)

C13_ChangedNotRelocated ==
  [][changed => (Done' = Done /\ dest' = dest)]_vars

\* The file f is moved into the destination in this step.
Moved(f) == wfs[f] > 0 /\ wfs'[f] = 0 /\ f[2] \in dest' \ dest

\* The stability check of the entry has sampled the same size at every
\* sample of one full settle window.
FullWindow ==
  /\ Len(recent) = settle_time + 1
  /\ \A i \in DOMAIN recent : recent[i] = recent[1]

C15_WatchTerminates == <>(rpc = "returned")

\* Every PO has a matching file that lay in a watch directory when the watch
\* started and that no producer has touched since.
AllSteadyAtStart ==
  \A q \in TargetSet : \E f \in Files : Matches(f[2], q) /\ hist[f] = "steady"

Appeared ==
  InDestAtStart \cup
  {q \in TargetSet : \E f \in Files : Matches(f[2], q) /\ hist[f] # "absent"}

\* The run returned from the polling loop at its time test, more than
\* max_wait_seconds and at most one poll_interval more after `start`.
ReturnedAtTimeout ==
  /\ rpc = "returned"
  /\ phase = "poll"
  /\ elapsed > max_wait_seconds
  /\ elapsed <= max_wait_seconds + poll_interval

Quiet == \A f \in Files : hist[f] # "touched"

Outstanding(f) == wfs[f] > 0 /\ \E q \in remaining : Matches(f[2], q)

\* C18 (the claim as stated): a file that has lain steady in a watch
\* directory is relocated when moves succeed, so the run does not return
\* leaving it behind; and it is relocated without waiting for a growing file:
\* the sweep is never held in the stability check of a file seen changing
\* while a steady file of its listing still waits for its turn.
C18_StableNotBehindGrowing ==
  /\ (rpc = "returned" /\ ~moveFailed) =>
        \A f \in Files : hist[f] = "steady" => ~Outstanding(f)
  /\ ~(/\ rpc = "sample"
       /\ changed
       /\ \E f \in entries : hist[f] = "steady" /\ Outstanding(f))

\* C19: in every state of a run of retrieve_pdf a PO's moved_to is set exactly
\* when its status is done, and the row of a PO that is done (status,
\* found_path, moved_to) is the same in every later state.
C19_DoneRowsFixed ==
  /\ [](\A q \in TargetSet :
          (status[q].moved_to # None) <=> (status[q].status = "done"))
  /\ [][\A q \in Done : status'[q] = status[q]]_vars

\* A PO is done by a move of an earlier sweep step, and the sweep has since
\* found a file for another move while a second file matching the done PO lies
\* in a watch directory.
C19_Witness ==
  /\ \E q \in Done : /\ status[q].moved_to # status[q].found_path
                     /\ \E f \in Files : wfs[f] > 0 /\ Matches(f[2], q)
  /\ rpc \in {"po", "sample", "dest", "move"}

\* Worker k takes a step in which its merge or its notify raises.
RaisesInMergeOrNotify(k) ==
  /\ wpc[k] \in {"merge", "notify"}
  /\ raisedAt'[k] = wpc[k]

MergeReturns(k) == wpc[k] = "merge" /\ wpc'[k] = "notify"

\* C21 (the claim as stated): the documents the merge of a batch takes are
\* exactly the files the watch of that batch reported relocated; no other file
\* of the working directory goes into the merged artifact.
C21_MergesOwnFilesOnly ==
  [][\A k \in Cells : MergeReturns(k) => MergeInput(k) = wgot[k]]_vars

\* The worker of key k returned ERROR for a data error of its row: no
\* recipients configured for the vendor, or no PO under the store columns.
DataError(k) ==
  /\ wpc[k] = "done"
  /\ wres[k].msg.kind \in {"no recipients", "no POs"}

\* C22 (the claim as stated): a data or schema error of a batch ends with
\* ERROR written to the status cell of the batch, and the batch is not
\* processed again by the program itself: a cycle whose parse raises for a
\* section header without a required column leaves the Ready rows of the
\* worksheet written as ERROR; the successful terminal write for a worker that
\* returned a data error puts ERROR into the cell of its row; and no worker is
\* submitted for a row whose batch was collected unless a person has set its
\* cell back to Ready.
C22_DataErrorWrittenFailed ==
  [][/\ (cpc = "sleep" /\ lastErr' = "schema") =>
          \A k \in ReadyRows(TodaySheet) :
             ledger'[TodaySheet][k] = STATUS_ERROR
     /\ \A k \in Cells :
          (DataError(k) /\ k \in active /\ k \notin active') =>
             ledger'[wrow[k]][k] = STATUS_ERROR
     /\ cpc = "submit" => \A k \in new_rows : <<ws, k>> \notin closed]_vars

\* The values of the non-blank, non-placeholder cells of the row under the
\* store columns, '.0' trimmed.
RequiredOfRow ==
  {strip_trailing_dot_zero(row[c]) : c \in {d \in store_cols : ~Skipped(row[d])}}

\* C23 (the claim as stated): the POs a row yields are exactly the values of
\* its non-blank cells under the store columns that are not "x", '.0' trimmed,
\* each once; every such cell contributes, whatever the headers of the store
\* columns are.
C23_EveryCellContributes ==
  ppc = "done" =>
    /\ {pos_unique[i] : i \in 1..Len(pos_unique)} = RequiredOfRow
    /\ \A i, j \in 1..Len(pos_unique) : pos_unique[i] = pos_unique[j] => i = j

\* C24 (the claim as stated): the write of a terminal status goes to the
\* worksheet on which the row of the batch was read and locked, also when
\* the day's worksheet has changed since the lock.
C24_TerminalWriteOnLockedSheet ==
  [][(cpc = "write" /\ Wrote) =>
        \A k \in finished : LastCall.sheet = wrow[k]]_vars

\* The workers that have made their vendor folder and have not returned.
UsingDir == {k \in Cells : wpc[k] \in {"watch", "merge", "notify"}}

\* Worker k takes the step in which it cleans its vendor folder up.
CleansUp(k) == wpc[k] = "notify" /\ wpc'[k] = "done" /\ raisedAt'[k] = "none"

\* C25 (the claim as stated): no two workers that run at the same time use
\* the same working directory, and the cleanup of one worker deletes no file
\* that another running worker has relocated.
C25_NoSharedWorkingDirectory ==
  [][/\ \A k, j \in UsingDir : DirOf(k) = DirOf(j) => k = j
     /\ \A k \in Cells : CleansUp(k) =>
          \A j \in UsingDir \ {k} :
             (wgot[j] \cap vdir[DirOf(j)]) \subseteq vdir'[DirOf(j)]]_vars

\* The POs the step marks done in a sweep (not in the pre-check).
MarkedInSweep == IF rpc = "precheck" THEN {} ELSE Done' \ Done

\* C26 (the claim as stated), for one of the two watchers, the other one
\* being the process that takes files out of the shared watch directory, and
\* the watcher's destination holding none of the names at the start: the
\* watcher credits a PO with a file only in the step in which it moves that
\* file out of the watch directory itself.  So a file the other watcher has
\* taken is never credited here (the PO stays not done), and a file credited
\* here is no longer there for the other watcher: at most one of them
\* relocates it.
C26_OnlyOneRelocates ==
  [][(destAtStart = {} /\ MarkedInSweep # {}) =>
        wfs[entry] > 0 /\ wfs'[entry] = 0]_vars

\* C27 (the claim as stated): with no external edit of the ledger, at the end
\* of every cycle of the coordinator every row whose status cell is SENDING
\* has its key in the active map.
C27_LockedRowsTracked ==
  (cpc = "sleep" /\ nResets = 0) =>
     \A s \in Sheets : \A k \in RowsOf(s) :
        ledger[s][k] = STATUS_SENDING => k \in active

\* C28 (the claim as stated): a row that has been set to SENDING is in the
\* end given a terminal status in its status cell, and its key leaves the
\* active map.
C28_LockedEventuallyTerminal ==
  \A s \in Sheets : \A k \in Cells :
     (ledger[s][k] = STATUS_SENDING) ~>
        (ledger[s][k] \in Terminal /\ k \notin active)

\* The watcher takes the step that follows the stability check of its entry.
ChecksDest == rpc = "dest" /\ rpc' # "dest"

GivesUp == rpc = "move" /\ rpc' = "po"

\* The scan takes the next entry of a listing to compare it with the POs.
TakesEntry == rpc = "entry" /\ rpc' = "po"

ListsDir == rpc = "list" /\ rpc' # "list"

\* C31: a watch directory that is missing, or whose scan raises a permission
\* or not-found error, costs only its own scan of this sweep: retrieve_pdf is
\* not left by the exception, the sweep goes on in this directory's place
\* (with no entry when the scan failed) and from there to the other
\* directories, and a sweep always starts again at the first directory.
C31_FailingDirSkipped ==
  [][/\ ListsDir => rpc' = "entry" /\ wd' = wd /\ phase' = phase
     /\ (rpc = "entry" /\ rpc' = "list") =>
          IF wd < Len(watch_dirs) THEN wd' = wd + 1 ELSE wd' = 1
     /\ rpc' # "raised"]_vars

\* The step is one of retrieve_pdf, not of a producer: producers change
\* nothing but the watch directories.
WatcherActs ==
  <<dest, status, remaining, rpc, phase, wd, entries, entry, po, pos_left,
    size1, stable_for, tries, elapsed, moveFailed, listFailed,
    precheckMissed>>' #
  <<dest, status, remaining, rpc, phase, wd, entries, entry, po, pos_left,
    size1, stable_for, tries, elapsed, moveFailed, listFailed,
    precheckMissed>>

\* C32: retrieve_pdf deletes no file: a step of it takes a file out of a
\* watch directory only by moving it, the file being the entry in hand, its
\* name matching a PO that is still outstanding, and the file lying in the
\* destination under that name afterwards; nothing leaves the destination;
\* so a file that matches no outstanding PO stays where it is, and every PO
\* that is done names a file of the destination that carries the name of the
\* file found for it.
C32_NoDeletionMatchedOnly ==
  [][WatcherActs =>
       /\ \A f \in Files :
            wfs'[f] # wfs[f] =>
               /\ f = entry
               /\ wfs'[f] = 0
               /\ po \in remaining
               /\ Matches(f[2], po)
               /\ f[2] \in dest'
               /\ status'[po].moved_to = <<dest_dir, f[2]>>
       /\ dest \subseteq dest'
       /\ \A q \in Done' :
            /\ status'[q].moved_to[1] = dest_dir
            /\ status'[q].moved_to[2] \in dest'
            /\ status'[q].moved_to[2] = status'[q].found_path[2]]_vars

\* C32 witness: the run has returned after moving a file for a PO, and
\* another file that matches the same PO, present since the start, lies
\* untouched in its watch directory.
C32_Witness ==
  /\ rpc = "returned"
  /\ \E q \in Done : \E g \in Files :
        /\ status[q].found_path \in Files
        /\ wfs[status[q].found_path] = 0
        /\ status[q].moved_to[2] \in dest \ destAtStart
        /\ g # status[q].found_path
        /\ Matches(g[2], q)
        /\ hist[g] = "steady"
        /\ wfs[g] > 0

\* C33: in one run no two POs are credited with the same file (no two done
\* rows share found_path or moved_to; a PO has one row, hence one file), and
\* a file is moved to a destination path only when no PO has been credited
\* with that path.
C33_OneFileOneIdentifier ==
  [][/\ \A q1, q2 \in Done' :
          q1 # q2 =>
             /\ status'[q1].moved_to # status'[q2].moved_to
             /\ status'[q1].found_path # status'[q2].found_path
     /\ (rpc = "move" /\ rpc' = "entry") =>
          \A q \in Done : status[q].moved_to # <<dest_dir, entry[2]>>]_vars

\* The spellings of the labels of the required columns, after clean().lower().
RequiredNames ==
  {"note", "vendor #", "vendor#", "vendor no", "vendor number", "vendor name",
   "vendor", "status"}

\* A row written as the header of a section: it carries the label of a
\* required column.
HeaderLike(r) ==
  \E c \in DOMAIN values[r] : CleanLower(values[r][c]) \in RequiredNames

\* The header rows of the worksheet that lack a required column.
LackingHeaders ==
  {r \in 1..Len(values) : HeaderLike(r) /\ ~SchemaThere(infer_schema(values[r]))}

ParseEnded == spc \in {"returned", "raised"}

\* C34: when a header row of the worksheet lacks a required column (Note,
\* vendor number, vendor name or status), parse_sections ends by raising, so
\* that no row of that section (nor of any other) is returned.
C34_MissingColumnRaises ==
  (ParseEnded /\ LackingHeaders # {}) => spc = "raised"

\* C35: the coordinator issues at most one ledger write call in a cycle.
C35_OneWriteCallPerCycle == Len(writes) <= 1

\* C36: a1 raises ValueError exactly when an index is below 1, and on
\* 1-based indexes it is injective: two different cells, in particular the
\* status cells of two different rows of a worksheet, whatever their status
\* columns, get different locators.
C36_A1Injective ==
  apc = "done" =>
     /\ \A i \in 1..2 :
           a1_res[i].raised <=> (a1_args[i][1] < 1 \/ a1_args[i][2] < 1)
     /\ (~a1_res[1].raised /\ ~a1_res[2].raised /\ a1_args[1] # a1_args[2]) =>
           a1_res[1].text # a1_res[2].text

\* C36 witness: a1 has been applied to a row with two digits in a
\* two-letter column and to a cell whose locator is made of the same
\* letter and digit.
C36_Witness ==
  /\ apc = "done"
  /\ a1_args[1][1] = 11 /\ a1_args[1][2] = 27
  /\ a1_args[2][1] = 1 /\ a1_args[2][2] = 1
  /\ a1_res[1].text = <<"A", "A", "1", "1">>
  /\ a1_res[2].text = <<"A", "1">>

\* The name ends with "-", the PO and ".pdf", letters compared without
\* regard to case.
EndsWithPo(name, q) ==
  endswith(Fold(name), Fold(<<"-">> \o q \o <<".", "p", "d", "f">>))

\* C37: the pattern of a PO accepts the name of an entry exactly when the
\* name ends with "-", the PO and ".pdf", letters compared without regard to
\* case and every character of the PO standing for itself.
C37_MatcherAcceptsSuffix ==
  (mpc = "done" /\ m_res # "skipped")
     => ((m_res = "hit") <=> EndsWithPo(m_name, m_po))

\* C37 witness: the PO "1.5" has been compared with the name "a-1x5.pdf",
\* which a dot standing for any character would accept, and the name was
\* refused.
C37_Witness ==
  /\ mpc = "done"
  /\ m_po = <<"1", ".", "5">>
  /\ m_name = <<"a", "-", "1", "x", "5", ".", "p", "d", "f">>
  /\ m_res = "miss"

====
